---------------------------- MODULE Spec2Model ----------------------------
(***************************************************************************)
(* Model of the concurrent batch vocabulary translator of                  *)
(* src/tools/trans_rest.py: translate_and_update (the scheduler),          *)
(* translate_batch_worker (one task of the process pool per batch) and     *)
(* translate_batch (the provider call), together with the JSON store file  *)
(* they share, the manager lock and the shared progress counter; and of    *)
(* the document translator of src/pytrans.py: chunk_text and               *)
(* find_chunk_boundary (the chunk planner), translate_chunk (the retried   *)
(* provider call), translate_file and main.                                *)
(***************************************************************************)
EXTENDS Integers, Sequences, FiniteSets

(***************************************************************************)
(* Bounds of the model.                                                    *)
(***************************************************************************)
\* longest vocabulary file (number of words) that is explored
MaxVocab == 3
\* number of times translate_and_update is started on the same files
MaxRuns == 2
\* longest text (number of characters) given to chunk_text, besides the examples
MaxText == 5
\* longest input document (number of characters) given to main
MaxDoc == 6
\* MAX_CHARS of src/pytrans.py line 20 (5000 there), scaled to the documents
MAX_CHARS == 3
\* number of times main is started on the same files
MaxDocRuns == 2

\* the words a vocabulary is made of
Words == {"a", "b"}
\* the lines a provider response is made of, before str.strip()
RawLines == {" y"}
\* the explored values of the batch_size and num_processes parameters
BatchSizes == {1, 2}
PoolSizes == {2}
\* the marker translate_batch stores for a failed batch
ERROR == "[ERROR]"
\* the values a store that exists before the first run may hold (a later run
\* also starts on the values, sentinel included, that the run before it stored)
StoredValues == {"x"}

VARIABLES
    all_words,      \* translate_and_update: the words of source_file
    batch_size,     \* translate_and_update: parameter
    num_processes,  \* translate_and_update: parameter
    disk,           \* output_file: [exists, ok, data]
    committed,      \* history: the content of the last complete write of output_file
    run,            \* history: number of the current run
    spc,            \* translate_and_update: position of the scheduler
    translations,   \* translate_and_update: the store as loaded at the start
    batches,        \* translate_and_update: the list of (number, words)
    idx,            \* translate_and_update: index of the dispatch / wait loop
    lock,           \* manager.Lock(): 0 when free, else the batch holding it
    completed,      \* shared_dict['completed']
    wpc,            \* translate_batch_worker: position, per batch
    wtrans,         \* translate_batch_worker: its local translations, per batch
    wall,           \* translate_batch_worker: its local all_translations, per batch
    provFailed,     \* history: translate_batch took its except branch, per batch
    merged,         \* history: the batch's json.dump completed, per batch
    text,           \* chunk_text: parameter, a sequence of characters
    max_chars,      \* chunk_text: parameter
    pos,            \* chunk_text: local
    chunks,         \* chunk_text: local
    cpc,            \* chunk_text: position ("idle" when it is not called)
    argc,           \* main: len(sys.argv)
    fs_in,          \* the input file: [exists, data]
    fs_out,         \* the output file: [exists, data]
    out_at_start,   \* history: the output file when the current run started
    druns,          \* history: number of the current run of main
    dpc,            \* main / translate_file: position ("idle" when not run)
    content,        \* translate_file: local
    file_chunks,    \* translate_file: chunks
    ci,             \* translate_file: number of chunks the loop has finished
    translated_chunks, \* translate_file: local
    outcomes,       \* history: per finished chunk, [ok, sent, out]
    result,         \* main: translated_content
    tpc,            \* translate_chunk: position ("idle" when it is not called)
    targ,           \* translate_chunk: parameter text
    attempt,        \* translate_chunk: loop variable
    tvalue,         \* translate_chunk: the value it returned
    log,            \* history: the provider's answers to the current call
    sleeps,         \* history: the time.sleep arguments of the current call
    calls,          \* history: provider calls issued in the current run
    exit_code       \* sys.exit status of the current run (-1 while it runs)

\* the variables of chunk_text
chunkVars == <<text, max_chars, pos, chunks, cpc>>

\* the variables of translate_and_update and its workers
batchVars == <<all_words, batch_size, num_processes, disk, committed, run, spc,
               translations, batches, idx, lock, completed, wpc, wtrans, wall,
               provFailed, merged>>

\* the variables of main, translate_file and translate_chunk
docVars == <<argc, fs_in, fs_out, out_at_start, druns, dpc, content, file_chunks,
             ci, translated_chunks, outcomes, result, tpc, targ, attempt,
             tvalue, log, sleeps, calls, exit_code>>

vars == <<batchVars, chunkVars, docVars>>

params == <<all_words, batch_size, num_processes>>

(***************************************************************************)
(* Data helpers.                                                           *)
(***************************************************************************)
Range(s) == {s[i] : i \in 1..Len(s)}

Min(a, b) == IF a <= b THEN a ELSE b

\* the empty dict {}
EmptyMap == [k \in {} |-> ""]

\* every dict with keys in K and values in V
Maps(K, V) == UNION {[D -> V] : D \in SUBSET K}

\* sequences over S of length lo..hi
SeqsOf(S, lo, hi) == UNION {[1..n -> S] : n \in lo..hi}

\* str.strip() on a response line
strip(line) == IF line = " y" THEN "y" ELSE line

\* the output file: absent, a complete JSON document holding data, or an
\* incomplete document (opened for writing, not completely written)
AbsentFile == [exists |-> FALSE, ok |-> FALSE, data |-> EmptyMap]
CompleteFile(d) == [exists |-> TRUE, ok |-> TRUE, data |-> d]
TruncatedFile == [exists |-> TRUE, ok |-> FALSE, data |-> EmptyMap]

(***************************************************************************)
(* translate_batch                                                         *)
(***************************************************************************)
\* the provider's answers to a request of n lines: an exception, or a text
\* whose split('\n') has at least one line
Responses(n) ==
    {[ok |-> FALSE, lines |-> <<>>]}
        \cup {[ok |-> TRUE, lines |-> l] : l \in SeqsOf(RawLines, 1, n)}

\* for original, translated in zip(words, translations):
\*     result[original] = translated.strip()
zip_dict(words, lines) ==
    LET n == Min(Len(words), Len(lines))
        last(w) == CHOOSE i \in 1..n :
                       /\ words[i] = w
                       /\ \A j \in (i + 1)..n : words[j] # w
    IN  [w \in {words[i] : i \in 1..n} |-> strip(lines[last(w)])]

error_map_first_only(words) == [w \in {words[1]} |-> ERROR]

\* {word: '[ERROR]' for word in words}
error_map(words) == [w \in Range(words) |-> ERROR]

translate_batch(words, resp) ==
    IF resp.ok THEN zip_dict(words, resp.lines) ELSE error_map(words)

(***************************************************************************)
(* translate_and_update: planning                                          *)
(***************************************************************************)
untranslated_retries_errors(aw, tr) ==
    SelectSeq(aw, LAMBDA w : w \notin DOMAIN tr \/ tr[w] = ERROR)

\* [w for w in all_words if w not in translations]
untranslated(aw, tr) == SelectSeq(aw, LAMBDA w : w \notin DOMAIN tr)

batch_number_zero_based(i, bs) == i \div bs

\* i // batch_size + 1
batch_number(i, bs) == (i \div bs) + 1

batch_slice_drops_last(untr, i, bs) ==
    SubSeq(untr, i + 1, Min(i + bs, Len(untr)) - 1)

\* untranslated[i:i + batch_size]
batch_slice(untr, i, bs) == SubSeq(untr, i + 1, Min(i + bs, Len(untr)))

\* for i in range(0, len(untranslated), batch_size): batches.append(...)
make_batches(untr, bs) ==
    LET starts == {i \in 0..(Len(untr) - 1) : i % bs = 0}
        start(j) == CHOOSE i \in starts :
                        Cardinality({k \in starts : k < i}) = j - 1
    IN  [j \in 1..Cardinality(starts) |->
            <<batch_number(start(j), bs), batch_slice(untr, start(j), bs)>>]

(***************************************************************************)
(* translate_batch_worker: helpers                                         *)
(***************************************************************************)
update_keeps_only_new(d, t) == t

\* dict.update
update(d, t) ==
    [k \in DOMAIN d \cup DOMAIN t |-> IF k \in DOMAIN t THEN t[k] ELSE d[k]]

lock_free_unguarded(l) == TRUE

\* "with lock:" is entered only when no other process holds the lock
lock_free(l) == l = 0

\* leaving "with lock:" releases the lock
lock_exit(l, b) == IF l = b THEN 0 ELSE l

exit_on_exception_keeps_lock(l, b) == l

\* an exception raised inside "with lock:" leaves the block, too
exit_on_exception(l, b) == lock_exit(l, b)

completed_on_exception_counts(c, words) == c + Len(words)

\* an exception raised before line 76 skips the update of the counter
completed_on_exception(c, words) == c

\* shared_dict.get('completed', 0) + len(words)
completed_after(c, words) == c + Len(words)

NoBatches == <<>>

BatchWords(b) == batches[b][2]
BatchIds == 1..Len(batches)

InCS == {"load", "open", "dump", "incr", "exit"}
Running == {"translate", "lock"} \cup InCS

\* chunk_text is not called
ChunkIdle ==
    /\ text = <<>>
    /\ max_chars = 1
    /\ pos = 0
    /\ chunks = <<>>
    /\ cpc = "idle"

\* a file that does not exist
NoFile == [exists |-> FALSE, data |-> <<>>]

\* a file holding the characters t
FileOf(t) == [exists |-> TRUE, data |-> t]

\* the translate_chunk call state when no call is open
CallIdle ==
    /\ tpc = "idle"
    /\ targ = <<>>
    /\ attempt = 0
    /\ tvalue = <<>>
    /\ log = <<>>
    /\ sleeps = <<>>

\* the locals of main and translate_file before they are set
DocLocalsUnset ==
    /\ content = <<>>
    /\ file_chunks = <<>>
    /\ ci = 0
    /\ translated_chunks = <<>>
    /\ outcomes = <<>>
    /\ result = <<>>

\* pytrans.py is not run
DocIdle ==
    /\ argc = 1
    /\ fs_in = NoFile
    /\ fs_out = NoFile
    /\ out_at_start = NoFile
    /\ druns = 1
    /\ dpc = "idle"
    /\ DocLocalsUnset
    /\ CallIdle
    /\ calls = 0
    /\ exit_code = -1

(***************************************************************************)
(* Initial state: the files and parameters the program is started on.      *)
(***************************************************************************)
\* the vocabularies of up to MaxVocab words, one of each pair that differ
\* only by exchanging the two words (the program compares words and never
\* looks inside one, and the stores below are closed under the exchange)
Vocabularies == {v \in SeqsOf(Words, 0, MaxVocab) : v = <<>> \/ v[1] = "a"}

Init ==
    /\ all_words \in Vocabularies
    /\ batch_size \in BatchSizes
    /\ num_processes \in PoolSizes
    /\ disk \in {AbsentFile} \cup {CompleteFile(d) : d \in Maps(Words, StoredValues)}
    /\ committed = disk.data
    /\ run = 1
    /\ spc = "start"
    /\ translations = EmptyMap
    /\ batches = NoBatches
    /\ idx = 0
    /\ lock = 0
    /\ completed = 0
    /\ wpc = <<>>
    /\ wtrans = <<>>
    /\ wall = <<>>
    /\ provFailed = <<>>
    /\ merged = <<>>
    /\ ChunkIdle
    /\ DocIdle

(***************************************************************************)
(* translate_and_update                                                    *)
(***************************************************************************)
\* lines 107-149: load the store, plan the batches, create the shared state
LoadAndPlan ==
    /\ spc = "start"
    /\ IF disk.exists /\ ~disk.ok
       THEN \* json.load raises: the run ends with the exception
            /\ spc' = "aborted"
            /\ UNCHANGED <<translations, batches, idx, completed, wpc, wtrans,
                           wall, provFailed, merged>>
       ELSE LET tr == IF disk.exists THEN disk.data ELSE EmptyMap
                untr == untranslated(all_words, tr)
                bs == make_batches(untr, batch_size)
            IN  /\ translations' = tr
                /\ IF untr = <<>>
                   THEN \* "All words already translated!"
                        /\ spc' = "returned"
                        /\ UNCHANGED <<batches, idx, completed, wpc, wtrans,
                                       wall, provFailed, merged>>
                   ELSE /\ spc' = "dispatch"
                        /\ batches' = bs
                        /\ idx' = 1
                        /\ completed' = Cardinality(DOMAIN tr)
                        /\ wpc' = [b \in 1..Len(bs) |-> "new"]
                        /\ wtrans' = [b \in 1..Len(bs) |-> EmptyMap]
                        /\ wall' = [b \in 1..Len(bs) |-> EmptyMap]
                        /\ provFailed' = [b \in 1..Len(bs) |-> FALSE]
                        /\ merged' = [b \in 1..Len(bs) |-> FALSE]
    /\ UNCHANGED <<chunkVars, docVars, params, disk, committed, run, lock>>

\* lines 154-157: pool.apply_async(worker_func, (batch_info,))
Dispatch ==
    /\ spc = "dispatch"
    /\ wpc' = [wpc EXCEPT ![idx] = "queued"]
    /\ IF idx = Len(batches)
       THEN spc' = "wait" /\ idx' = 1
       ELSE spc' = spc /\ idx' = idx + 1
    /\ UNCHANGED <<chunkVars, docVars, params, disk, committed, run, translations, batches, lock,
                   completed, wtrans, wall, provFailed, merged>>

wait_done_unchecked(pc) == TRUE

\* result.get() returns once the task has finished
wait_done(pc) == pc = "done"

\* lines 160-161: for result in results: result.get()
Wait ==
    /\ spc = "wait"
    /\ wait_done(wpc[idx])
    /\ IF idx = Len(batches)
       THEN spc' = "final" /\ idx' = 0
       ELSE spc' = spc /\ idx' = idx + 1
    /\ UNCHANGED <<chunkVars, docVars, params, disk, committed, run, translations, batches, lock,
                   completed, wpc, wtrans, wall, provFailed, merged>>

\* lines 163-168: the final statistics read output_file once more
Final ==
    /\ spc = "final"
    /\ spc' = IF disk.exists /\ disk.ok THEN "returned" ELSE "failed"
    /\ UNCHANGED <<chunkVars, docVars, params, disk, committed, run, translations, batches, idx,
                   lock, completed, wpc, wtrans, wall, provFailed, merged>>

(***************************************************************************)
(* The process pool: a free process takes the oldest queued task.          *)
(***************************************************************************)
PoolStart(b) ==
    /\ wpc[b] = "queued"
    /\ \A c \in BatchIds : c < b => wpc[c] # "queued"
    /\ Cardinality({c \in BatchIds : wpc[c] \in Running}) < num_processes
    /\ wpc' = [wpc EXCEPT ![b] = "translate"]
    /\ UNCHANGED <<chunkVars, docVars, params, disk, committed, run, spc, translations, batches,
                   idx, lock, completed, wtrans, wall, provFailed, merged>>

(***************************************************************************)
(* translate_batch_worker                                                  *)
(***************************************************************************)
\* line 58: translations = translate_batch(words)
Translate(b) ==
    /\ wpc[b] = "translate"
    /\ \E resp \in Responses(Len(BatchWords(b))) :
          /\ wtrans' = [wtrans EXCEPT ![b] = translate_batch(BatchWords(b), resp)]
          /\ provFailed' = [provFailed EXCEPT ![b] = ~resp.ok]
    /\ wpc' = [wpc EXCEPT ![b] = "lock"]
    /\ UNCHANGED <<chunkVars, docVars, params, disk, committed, run, spc, translations, batches,
                   idx, lock, completed, wall, merged>>

\* line 61: with lock:
Acquire(b) ==
    /\ wpc[b] = "lock"
    /\ lock_free(lock)
    /\ lock' = b
    /\ wpc' = [wpc EXCEPT ![b] = "load"]
    /\ UNCHANGED <<chunkVars, docVars, params, disk, committed, run, spc, translations, batches,
                   idx, completed, wtrans, wall, provFailed, merged>>

\* lines 84-86: an exception inside the try block ends the task with {}
Raise(b) ==
    /\ wpc' = [wpc EXCEPT ![b] = "done"]
    /\ lock' = exit_on_exception(lock, b)
    /\ completed' = completed_on_exception(completed, BatchWords(b))
    /\ UNCHANGED <<chunkVars, docVars, params, committed, run, spc, translations, batches, idx,
                   wtrans, wall, provFailed, merged>>

\* lines 63-70: load output_file (or start from {}) and update it
Load(b) ==
    /\ wpc[b] = "load"
    /\ disk.exists => disk.ok
    /\ wall' = [wall EXCEPT ![b] =
                   update(IF disk.exists THEN disk.data ELSE EmptyMap, wtrans[b])]
    /\ wpc' = [wpc EXCEPT ![b] = "open"]
    /\ UNCHANGED <<chunkVars, docVars, params, disk, committed, run, spc, translations, batches,
                   idx, lock, completed, wtrans, provFailed, merged>>

\* line 65: json.load raises on an incomplete document
LoadFails(b) ==
    /\ wpc[b] = "load"
    /\ disk.exists /\ ~disk.ok
    /\ Raise(b)
    /\ UNCHANGED disk

\* line 73: open(output_file, 'w') truncates the file
OpenWrite(b) ==
    /\ wpc[b] = "open"
    /\ disk' = TruncatedFile
    /\ wpc' = [wpc EXCEPT ![b] = "dump"]
    /\ UNCHANGED <<chunkVars, docVars, params, committed, run, spc, translations, batches, idx,
                   lock, completed, wtrans, wall, provFailed, merged>>

\* line 73: open raises (the file cannot be opened for writing)
OpenFails(b) ==
    /\ wpc[b] = "open"
    /\ Raise(b)
    /\ UNCHANGED disk

\* line 74 and the end of the inner with: json.dump, then the file is closed
Dump(b) ==
    /\ wpc[b] = "dump"
    /\ disk' = CompleteFile(wall[b])
    /\ committed' = wall[b]
    /\ merged' = [merged EXCEPT ![b] = TRUE]
    /\ wpc' = [wpc EXCEPT ![b] = "incr"]
    /\ UNCHANGED <<chunkVars, docVars, params, run, spc, translations, batches, idx, lock,
                   completed, wtrans, wall, provFailed>>

\* line 74: json.dump raises (the device is full): the document stays incomplete
DumpFails(b) ==
    /\ wpc[b] = "dump"
    /\ Raise(b)
    /\ disk' = TruncatedFile

\* lines 76-77: shared_dict['completed'] = shared_dict.get('completed', 0) + len(words)
Incr(b) ==
    /\ wpc[b] = "incr"
    /\ completed' = completed_after(completed, BatchWords(b))
    /\ wpc' = [wpc EXCEPT ![b] = "exit"]
    /\ UNCHANGED <<chunkVars, docVars, params, disk, committed, run, spc, translations, batches,
                   idx, lock, wtrans, wall, provFailed, merged>>

\* lines 80-82: leave "with lock:" and return translations
Release(b) ==
    /\ wpc[b] = "exit"
    /\ lock' = lock_exit(lock, b)
    /\ wpc' = [wpc EXCEPT ![b] = "done"]
    /\ UNCHANGED <<chunkVars, docVars, params, disk, committed, run, spc, translations, batches,
                   idx, completed, wtrans, wall, provFailed, merged>>

WorkerStep(b) ==
    \/ PoolStart(b)
    \/ Translate(b)
    \/ Acquire(b)
    \/ Load(b)
    \/ LoadFails(b)
    \/ OpenWrite(b)
    \/ OpenFails(b)
    \/ Dump(b)
    \/ DumpFails(b)
    \/ Incr(b)
    \/ Release(b)

(***************************************************************************)
(* The environment: the machine stops; the program is started again.       *)
(***************************************************************************)
Fresh ==
    /\ translations' = EmptyMap
    /\ batches' = NoBatches
    /\ idx' = 0
    /\ lock' = 0
    /\ completed' = 0
    /\ wpc' = <<>>
    /\ wtrans' = <<>>
    /\ wall' = <<>>
    /\ provFailed' = <<>>
    /\ merged' = <<>>

\* every process of the run dies; only the files survive
Crash ==
    /\ spc \in {"dispatch", "wait"}
    /\ spc' = "crashed"
    /\ Fresh
    /\ UNCHANGED <<chunkVars, docVars, params, disk, committed, run>>

\* the program is started again on the same files
NextRun ==
    /\ spc \in {"returned", "failed", "aborted", "crashed"}
    /\ run < MaxRuns
    /\ run' = run + 1
    /\ spc' = "start"
    /\ Fresh
    /\ UNCHANGED <<chunkVars, docVars, params, disk, committed>>

SchedulerStep == LoadAndPlan \/ Dispatch \/ Wait \/ Final

Next ==
    \/ LoadAndPlan
    \/ Dispatch
    \/ Wait
    \/ Final
    \/ \E b \in BatchIds : PoolStart(b)
    \/ \E b \in BatchIds : Translate(b)
    \/ \E b \in BatchIds : Acquire(b)
    \/ \E b \in BatchIds : Load(b)
    \/ \E b \in BatchIds : LoadFails(b)
    \/ \E b \in BatchIds : OpenWrite(b)
    \/ \E b \in BatchIds : OpenFails(b)
    \/ \E b \in BatchIds : Dump(b)
    \/ \E b \in BatchIds : DumpFails(b)
    \/ \E b \in BatchIds : Incr(b)
    \/ \E b \in BatchIds : Release(b)
    \/ Crash
    \/ NextRun

Spec == Init /\ [][Next]_vars

(***************************************************************************)
(* One run without a crash, under the scheduling the operating system and  *)
(* the pool give: the scheduler and every task keep taking steps.          *)
(***************************************************************************)
LiveNext ==
    \/ LoadAndPlan
    \/ Dispatch
    \/ Wait
    \/ Final
    \/ \E b \in BatchIds : PoolStart(b)
    \/ \E b \in BatchIds : Translate(b)
    \/ \E b \in BatchIds : Acquire(b)
    \/ \E b \in BatchIds : Load(b)
    \/ \E b \in BatchIds : LoadFails(b)
    \/ \E b \in BatchIds : OpenWrite(b)
    \/ \E b \in BatchIds : OpenFails(b)
    \/ \E b \in BatchIds : Dump(b)
    \/ \E b \in BatchIds : DumpFails(b)
    \/ \E b \in BatchIds : Incr(b)
    \/ \E b \in BatchIds : Release(b)

LiveSpec ==
    /\ Init
    /\ [][LiveNext]_vars
    /\ WF_vars(SchedulerStep)
    /\ \A b \in 1..MaxVocab : WF_vars(b \in BatchIds /\ WorkerStep(b))

(***************************************************************************)
(* src/pytrans.py: find_chunk_boundary and chunk_text.  A text is a        *)
(* sequence of characters; positions are counted from 0, as in Python.     *)
(***************************************************************************)
\* the characters of the texts that are explored exhaustively
Chars == {"\n", "\r", ".", ";", " ", "w"}
\* the explored values of max_chars
Ceilings == 1..4

\* "Hello world. This is a test sentence that is reasonably long."
HelloText ==
    <<"H", "e", "l", "l", "o", " ", "w", "o", "r", "l", "d", ".", " ",
    "T", "h", "i", "s", " ", "i", "s", " ", "a", " ", "t", "e", "s",
    "t", " ", "s", "e", "n", "t", "e", "n", "c", "e", " ", "t", "h",
    "a", "t", " ", "i", "s", " ", "r", "e", "a", "s", "o", "n", "a",
    "b", "l", "y", " ", "l", "o", "n", "g", ".">>

\* texts with the delimiters that Chars leaves out, and their max_chars
OtherDelimiterInputs ==
    { << <<"w", "!", " ", " ", "w", " ", "w">>, 6 >>,
      << <<"w", "?", " ", " ", "w", " ", "w">>, 6 >>,
      << <<"w", "?", " ", " ", "!", " ", " ">>, 6 >>,
      << <<"w", ",", " ", "w", " ", "w">>, 5 >>,
      << <<"w", ",", " ", ";", " ", "w">>, 5 >> }

\* the (text, max_chars) pairs chunk_text is called on
ChunkInputs ==
    (SeqsOf(Chars, 0, MaxText) \X Ceilings)
        \cup OtherDelimiterInputs \cup {<<HelloText, 20>>}

\* the trans_rest program is not running
BatchIdle ==
    /\ all_words = <<>>
    /\ batch_size = 1
    /\ num_processes = 1
    /\ disk = AbsentFile
    /\ committed = EmptyMap
    /\ run = 1
    /\ spc = "idle"
    /\ translations = EmptyMap
    /\ batches = NoBatches
    /\ idx = 0
    /\ lock = 0
    /\ completed = 0
    /\ wpc = <<>>
    /\ wtrans = <<>>
    /\ wall = <<>>
    /\ provFailed = <<>>
    /\ merged = <<>>

\* s[a:b] for 0 <= a
slice(s, a, b) == SubSeq(s, a + 1, Min(b, Len(s)))

DelimitersSpaceFirst ==
    << <<" ">>, <<"\n">>, <<"\r", "\n">>, <<".", " ", " ">>, <<"!", " ", " ">>,
       <<"?", " ", " ">>, <<";", " ">>, <<",", " ">> >>

\* line 63: the delimiters, in the order they are tried
Delimiters ==
    << <<"\n">>, <<"\r", "\n">>, <<".", " ", " ">>, <<"!", " ", " ">>,
       <<"?", " ", " ">>, <<";", " ">>, <<",", " ">>, <<" ">> >>

\* str.rfind: the highest index at which d occurs in s, or -1
rfind(s, d) ==
    LET at == {p \in 0..(Len(s) - Len(d)) : slice(s, p, p + Len(d)) = d}
    IN  IF at = {} THEN -1 ELSE CHOOSE p \in at : \A q \in at : q <= p

search_whole_text(t, mc) == t

\* line 60: search_area = text[:max_chars]
search_area(t, mc) == slice(t, 0, mc)

\* lines 56-74
find_chunk_boundary(t, mc) ==
    IF Len(t) <= mc THEN Len(t)
    ELSE LET area == search_area(t, mc)
             hits == {k \in 1..Len(Delimiters) : rfind(area, Delimiters[k]) > 0}
             last_space == rfind(area, <<" ">>)
         IN  IF hits # {}
             THEN LET k == CHOOSE x \in hits : \A y \in hits : x <= y
                  IN  rfind(area, Delimiters[k]) + Len(Delimiters[k])
             ELSE IF last_space > 0 THEN last_space + 1
             ELSE mc

remaining_skips_one(t, p) == slice(t, p + 1, Len(t))

\* line 85: remaining = text[pos:]
remaining_of(t, p) == slice(t, p, Len(t))

chunk_without_last_char(rem, chunk_end) == slice(rem, 0, chunk_end - 1)

\* line 93: remaining[:chunk_end]
chunk_of(rem, chunk_end) == slice(rem, 0, chunk_end)

\* line 84 is false: the loop ends
ChunkExit ==
    /\ cpc = "loop"
    /\ ~(pos < Len(text))
    /\ cpc' = "done"
    /\ UNCHANGED <<batchVars, docVars, text, max_chars, pos, chunks>>

\* lines 85-89: the rest fits and is the last chunk
ChunkLast ==
    /\ cpc = "loop"
    /\ pos < Len(text)
    /\ Len(remaining_of(text, pos)) <= max_chars
    /\ chunks' = Append(chunks, remaining_of(text, pos))
    /\ cpc' = "done"
    /\ UNCHANGED <<batchVars, docVars, text, max_chars, pos>>

\* lines 91-94: cut one chunk off the rest
ChunkCut ==
    /\ cpc = "loop"
    /\ pos < Len(text)
    /\ Len(remaining_of(text, pos)) > max_chars
    /\ LET rem == remaining_of(text, pos)
           chunk_end == find_chunk_boundary(rem, max_chars)
       IN  /\ chunks' = Append(chunks, chunk_of(rem, chunk_end))
           /\ pos' = pos + chunk_end
    /\ UNCHANGED <<batchVars, docVars, text, max_chars, cpc>>

ChunkInit ==
    /\ BatchIdle
    /\ DocIdle
    /\ \E in \in ChunkInputs : text = in[1] /\ max_chars = in[2]
    /\ pos = 0
    /\ chunks = <<>>
    /\ cpc = "loop"

ChunkNext ==
    \/ ChunkExit
    \/ ChunkLast
    \/ ChunkCut

ChunkSpec == ChunkInit /\ [][ChunkNext]_vars

(***************************************************************************)
(* src/pytrans.py: translate_chunk, translate_file and main.  The provider *)
(* (GoogleTranslator.translate) answers a call with a text or raises.      *)
(***************************************************************************)
\* the characters an input document is made of
DocChars == {" ", "w"}
\* the texts the provider returns
ProviderTexts == {<<"e">>, <<"e", "n">>}
\* the content of an output file that exists before the first run
OldOutput == <<"o">>
\* line 101: range(3)
MaxAttempts == 3

RECURSIVE chunk_text(_, _)
\* lines 77-96, as a function of its parameters
chunk_text(t, mc) ==
    IF ~(0 < Len(t)) THEN <<>>
    ELSE IF Len(t) <= mc THEN <<t>>
    ELSE LET chunk_end == find_chunk_boundary(t, mc)
         IN  <<chunk_of(t, chunk_end)>> \o chunk_text(remaining_of(t, chunk_end), mc)

RECURSIVE join(_)
\* line 159: ''.join(translated_chunks)
join(cs) == IF cs = <<>> THEN <<>> ELSE Head(cs) \o join(Tail(cs))

backoff_constant(a) == 1

\* line 108: time.sleep(1 + attempt)
backoff(a) == 1 + a

on_chunk_failure_drops(chunk) == <<>>

\* lines 153-154: translated_chunks.append(chunk), the original text
on_chunk_failure(chunk) == chunk

output_exists_ignored(out) == FALSE

\* line 189: os.path.exists(output_file)
output_exists(out) == out.exists

\* sys.exit(code)
Exit(code) ==
    /\ exit_code' = code
    /\ dpc' = "exit"

\* lines 166-176: no input file argument
MainUsage ==
    /\ dpc = "start"
    /\ argc < 2
    /\ Exit(1)
    /\ UNCHANGED <<batchVars, chunkVars, argc, fs_in, fs_out, out_at_start, druns,
                   content, file_chunks, ci, translated_chunks, outcomes, result,
                   tpc, targ, attempt, tvalue, log, sleeps, calls>>

\* lines 181-183: the input file does not exist
MainInputMissing ==
    /\ dpc = "start"
    /\ ~(argc < 2)
    /\ ~fs_in.exists
    /\ Exit(1)
    /\ UNCHANGED <<batchVars, chunkVars, argc, fs_in, fs_out, out_at_start, druns,
                   content, file_chunks, ci, translated_chunks, outcomes, result,
                   tpc, targ, attempt, tvalue, log, sleeps, calls>>

\* lines 189-194: the output file exists already
MainSkip ==
    /\ dpc = "start"
    /\ ~(argc < 2)
    /\ fs_in.exists
    /\ output_exists(fs_out)
    /\ Exit(0)
    /\ UNCHANGED <<batchVars, chunkVars, argc, fs_in, fs_out, out_at_start, druns,
                   content, file_chunks, ci, translated_chunks, outcomes, result,
                   tpc, targ, attempt, tvalue, log, sleeps, calls>>

\* lines 203, 117-131: translate_file reads the input and plans the chunks
MainLoad ==
    /\ dpc = "start"
    /\ ~(argc < 2)
    /\ fs_in.exists
    /\ ~output_exists(fs_out)
    /\ content' = fs_in.data
    /\ IF Len(fs_in.data) <= MAX_CHARS
       THEN /\ dpc' = "single"
            /\ UNCHANGED file_chunks
       ELSE /\ dpc' = "chunks"
            /\ file_chunks' = chunk_text(fs_in.data, MAX_CHARS)
    /\ UNCHANGED <<batchVars, chunkVars, argc, fs_in, fs_out, out_at_start, druns,
                   ci, translated_chunks, outcomes, result,
                   tpc, targ, attempt, tvalue, log, sleeps, calls, exit_code>>

\* lines 31-42, 213-215: load_file raises IOError, main reports and exits
MainLoadFails ==
    /\ dpc = "start"
    /\ ~(argc < 2)
    /\ fs_in.exists
    /\ ~output_exists(fs_out)
    /\ Exit(1)
    /\ UNCHANGED <<batchVars, chunkVars, argc, fs_in, fs_out, out_at_start, druns,
                   content, file_chunks, ci, translated_chunks, outcomes, result,
                   tpc, targ, attempt, tvalue, log, sleeps, calls>>

\* the files, the arguments and the run counter
docFiles == <<argc, fs_in, fs_out, out_at_start, druns>>

\* the locals of translate_file and main
docLocals == <<content, file_chunks, ci, translated_chunks, outcomes, result>>

\* lines 99-101: translate_chunk(chunk) is entered
BeginCall(chunk) ==
    /\ tpc' = "try"
    /\ targ' = chunk
    /\ attempt' = 0
    /\ tvalue' = <<>>
    /\ log' = <<>>
    /\ sleeps' = <<>>

\* the caller has taken the outcome of translate_chunk
EndCall ==
    /\ tpc' = "idle"
    /\ targ' = <<>>
    /\ attempt' = 0
    /\ tvalue' = <<>>
    /\ log' = <<>>
    /\ sleeps' = <<>>

\* lines 102-105: the provider answers, translate_chunk returns the answer
TryOk ==
    /\ tpc = "try"
    /\ attempt < MaxAttempts
    /\ \E v \in ProviderTexts :
           /\ log' = Append(log, [ok |-> TRUE, out |-> v])
           /\ tvalue' = v
    /\ tpc' = "returned"
    /\ calls' = calls + 1
    /\ UNCHANGED <<batchVars, chunkVars, docFiles, docLocals, dpc, targ, attempt,
                   sleeps, exit_code>>

\* lines 106-108: the provider raises, translate_chunk sleeps and goes on
TryFail ==
    /\ tpc = "try"
    /\ attempt < MaxAttempts
    /\ log' = Append(log, [ok |-> FALSE, out |-> <<>>])
    /\ sleeps' = Append(sleeps, backoff(attempt))
    /\ attempt' = attempt + 1
    /\ calls' = calls + 1
    /\ UNCHANGED <<batchVars, chunkVars, docFiles, docLocals, dpc, tpc, targ,
                   tvalue, exit_code>>

\* line 110: the loop is exhausted, translate_chunk raises
TryRaise ==
    /\ tpc = "try"
    /\ ~(attempt < MaxAttempts)
    /\ tpc' = "raised"
    /\ UNCHANGED <<batchVars, chunkVars, docFiles, docLocals, dpc, targ, attempt,
                   tvalue, log, sleeps, calls, exit_code>>

\* line 126: the content fits, translate_chunk(content) is called
SingleCall ==
    /\ dpc = "single"
    /\ tpc = "idle"
    /\ BeginCall(content)
    /\ UNCHANGED <<batchVars, chunkVars, docFiles, docLocals, dpc, calls, exit_code>>

\* lines 126-128, 203: translate_file returns the translation to main
SingleReturn ==
    /\ dpc = "single"
    /\ tpc = "returned"
    /\ result' = tvalue
    /\ dpc' = "save"
    /\ EndCall
    /\ UNCHANGED <<batchVars, chunkVars, docFiles, content, file_chunks, ci,
                   translated_chunks, outcomes, calls, exit_code>>

\* lines 126, 213-215: the exception reaches main, which reports and exits
SingleRaise ==
    /\ dpc = "single"
    /\ tpc = "raised"
    /\ Exit(1)
    /\ EndCall
    /\ UNCHANGED <<batchVars, chunkVars, docFiles, docLocals, calls>>

\* lines 141-147: the loop takes the next chunk and calls translate_chunk
ChunkCall ==
    /\ dpc = "chunks"
    /\ tpc = "idle"
    /\ ci < Len(file_chunks)
    /\ BeginCall(file_chunks[ci + 1])
    /\ UNCHANGED <<batchVars, chunkVars, docFiles, docLocals, dpc, calls, exit_code>>

\* lines 146-149: the translation of the chunk is appended
ChunkReturn ==
    /\ dpc = "chunks"
    /\ tpc = "returned"
    /\ translated_chunks' = Append(translated_chunks, tvalue)
    /\ outcomes' = Append(outcomes, [ok |-> TRUE, sent |-> targ, out |-> tvalue])
    /\ ci' = ci + 1
    /\ EndCall
    /\ UNCHANGED <<batchVars, chunkVars, docFiles, content, file_chunks, result,
                   dpc, calls, exit_code>>

\* lines 150-154: translate_chunk raised, the original chunk is appended
ChunkRaise ==
    /\ dpc = "chunks"
    /\ tpc = "raised"
    /\ translated_chunks' =
           Append(translated_chunks, on_chunk_failure(file_chunks[ci + 1]))
    /\ outcomes' = Append(outcomes, [ok |-> FALSE, sent |-> targ, out |-> <<>>])
    /\ ci' = ci + 1
    /\ EndCall
    /\ UNCHANGED <<batchVars, chunkVars, docFiles, content, file_chunks, result,
                   dpc, calls, exit_code>>

\* lines 155-161, 203: the loop is over, the pieces are joined and returned
Join ==
    /\ dpc = "chunks"
    /\ tpc = "idle"
    /\ ~(ci < Len(file_chunks))
    /\ result' = join(translated_chunks)
    /\ dpc' = "save"
    /\ UNCHANGED <<batchVars, chunkVars, docFiles, content, file_chunks, ci,
                   translated_chunks, outcomes, tpc, targ, attempt, tvalue, log,
                   sleeps, calls, exit_code>>

\* lines 207-211, 45-48: save_file writes the output, main ends
SaveOk ==
    /\ dpc = "save"
    /\ fs_out' = FileOf(result)
    /\ Exit(0)
    /\ UNCHANGED <<batchVars, chunkVars, argc, fs_in, out_at_start, druns,
                   docLocals, tpc, targ, attempt, tvalue, log, sleeps, calls>>

\* lines 47, 213-215: open(output_file, 'w') raises
SaveOpenFails ==
    /\ dpc = "save"
    /\ Exit(1)
    /\ UNCHANGED <<batchVars, chunkVars, docFiles, docLocals, tpc, targ, attempt,
                   tvalue, log, sleeps, calls>>

\* lines 47-48, 213-215: the file is created and f.write raises
SaveWriteFails ==
    /\ dpc = "save"
    /\ fs_out' = FileOf(<<>>)
    /\ Exit(1)
    /\ UNCHANGED <<batchVars, chunkVars, argc, fs_in, out_at_start, druns,
                   docLocals, tpc, targ, attempt, tvalue, log, sleeps, calls>>

\* the program is started again on the same files
DocNextRun ==
    /\ dpc = "exit"
    /\ druns < MaxDocRuns
    /\ druns' = druns + 1
    /\ out_at_start' = fs_out
    /\ dpc' = "start"
    /\ content' = <<>>
    /\ file_chunks' = <<>>
    /\ ci' = 0
    /\ translated_chunks' = <<>>
    /\ outcomes' = <<>>
    /\ result' = <<>>
    /\ calls' = 0
    /\ exit_code' = -1
    /\ UNCHANGED <<batchVars, chunkVars, argc, fs_in, fs_out, tpc, targ, attempt,
                   tvalue, log, sleeps>>

\* the files and arguments main is started on
DocInit ==
    /\ BatchIdle
    /\ ChunkIdle
    /\ argc \in {1, 2}
    /\ fs_in \in {NoFile} \cup {FileOf(t) : t \in SeqsOf(DocChars, 0, MaxDoc)}
    /\ fs_out \in {NoFile, FileOf(OldOutput)}
    /\ out_at_start = fs_out
    /\ druns = 1
    /\ dpc = "start"
    /\ DocLocalsUnset
    /\ CallIdle
    /\ calls = 0
    /\ exit_code = -1

DocNext ==
    \/ MainUsage
    \/ MainInputMissing
    \/ MainSkip
    \/ MainLoad
    \/ MainLoadFails
    \/ TryOk
    \/ TryFail
    \/ TryRaise
    \/ SingleCall
    \/ SingleReturn
    \/ SingleRaise
    \/ ChunkCall
    \/ ChunkReturn
    \/ ChunkRaise
    \/ Join
    \/ SaveOk
    \/ SaveOpenFails
    \/ SaveWriteFails
    \/ DocNextRun

DocSpec == DocInit /\ [][DocNext]_vars


(***************************************************************************)
(* Properties.                                                             *)
(***************************************************************************)
\* the batches whose store write has completed
Written == {b \in BatchIds : merged[b]}

RECURSIVE SumWords(_)
\* the word counts of the batches in S, added up
SumWords(S) ==
    IF S = {} THEN 0
    ELSE LET b == CHOOSE x \in S : TRUE
         IN  Len(BatchWords(b)) + SumWords(S \ {b})

RECURSIVE Flatten(_)
\* the words of the batches bs, concatenated in the order of the list
Flatten(bs) == IF bs = <<>> THEN <<>> ELSE Head(bs)[2] \o Flatten(Tail(bs))

RECURSIVE Remaining(_, _)
\* the vocabulary aw without the items that are keys of tr, in order
Remaining(aw, tr) ==
    IF aw = <<>> THEN <<>>
    ELSE IF Head(aw) \in DOMAIN tr THEN Remaining(Tail(aw), tr)
         ELSE <<Head(aw)>> \o Remaining(Tail(aw), tr)

\* C1: once every batch worker has finished with its merge written, the
\* store holds exactly the keys that existed before the run and the keys of
\* every batch's partial map; the earlier entries are unchanged and every
\* batch key carries the value some batch's partial map gives it.
C1_NoLostUpdates ==
    (batches # NoBatches /\ \A b \in BatchIds : wpc[b] = "done" /\ merged[b])
        => /\ disk.exists /\ disk.ok
           /\ DOMAIN disk.data =
                  DOMAIN translations \cup UNION {DOMAIN wtrans[b] : b \in BatchIds}
           /\ \A k \in DOMAIN translations : disk.data[k] = translations[k]
           /\ \A b \in BatchIds : \A k \in DOMAIN wtrans[b] :
                  \E c \in BatchIds :
                      k \in DOMAIN wtrans[c] /\ disk.data[k] = wtrans[c][k]

\* C1 witness: a run over an existing store whose batches all merged
C1_Witness ==
    /\ spc = "returned"
    /\ Len(batches) >= 2
    /\ DOMAIN translations # {}
    /\ \A b \in BatchIds : wpc[b] = "done" /\ merged[b]

\* C2 (as claimed): whenever the store file exists it is a complete document
\* that holds every entry of the last completed write.
C2_AlwaysCompleteSnapshot ==
    disk.exists =>
        /\ disk.ok
        /\ \A k \in DOMAIN committed :
               k \in DOMAIN disk.data /\ disk.data[k] = committed[k]

\* C3 (as claimed): a key of the store keeps its value in every later
\* completed write.
C3_NeverOverwrite ==
    [][\A k \in DOMAIN committed :
           k \in DOMAIN committed' /\ committed'[k] = committed[k]]_vars

\* C4: at most one worker is between acquiring and releasing the lock (store
\* read, merge, write, counter update), and that worker is the lock's holder.
C4_MutualExclusion ==
    /\ Cardinality({b \in BatchIds : wpc[b] \in InCS}) <= 1
    /\ \A b \in BatchIds : wpc[b] \in InCS => lock = b

\* C4 witness: one worker is writing the store while another worker, whose
\* provider call has returned, waits for the lock
C4_Witness ==
    \E b, c \in BatchIds : wpc[b] = "dump" /\ wpc[c] = "lock"

\* C5 (as claimed): in every state the counter is its initial value plus the
\* word counts of exactly the batches whose store write has completed.
C5_CounterEqualsWritten ==
    batches # NoBatches =>
        completed = Cardinality(DOMAIN translations) + SumWords(Written)

\* C5 (amended): the counter is its initial value plus the word counts of
\* the batches whose store write has completed, except the batch that has
\* completed its write and not yet executed the increment; a batch whose
\* read or write raised is never counted; the counter never decreases
\* while the run lasts.
C5_CounterFollowsWrite ==
    /\ [](batches # NoBatches =>
            completed = Cardinality(DOMAIN translations)
                + SumWords({b \in Written : wpc[b] # "incr"}))
    /\ [][batches' = batches => completed' >= completed]_vars

\* C5 witness: one batch has been written and counted, another batch's task
\* ended by an exception inside the critical section
C5_Witness ==
    \E b, c \in BatchIds :
        /\ wpc[b] = "done" /\ merged[b]
        /\ wpc[c] = "done" /\ ~merged[c]
        /\ completed = Cardinality(DOMAIN translations) + Len(BatchWords(b))

\* C6 (as claimed): the counter is at most the number of entries of the
\* last completed write of the store.
C6_ProgressAtMostStore ==
    batches # NoBatches => completed <= Cardinality(DOMAIN committed)

C8_PlanIsPartition ==
    spc \in {"dispatch", "wait", "final", "returned", "failed"} =>
        /\ Flatten(batches) = Remaining(all_words, translations)
        /\ \A w \in Range(Flatten(batches)) : w \notin DOMAIN translations
        /\ \A j \in BatchIds :
               /\ Len(batches[j][2]) <= batch_size
               /\ batches[j][1] = j

\* C8 witness: a plan of two batches that leaves out an existing key and
\* keeps a duplicated word
C8_Witness ==
    /\ spc = "dispatch"
    /\ Len(batches) = 2
    /\ Range(all_words) \cap DOMAIN translations # {}
    /\ Len(Flatten(batches)) > Cardinality(Range(Flatten(batches)))

\* C9: the scheduler is past its wait loop only when the task of every
\* planned batch has ended, whether or not batches failed; it ends with an
\* exception before the loop only when it could not load the store, before
\* any batch exists.
C9_SchedulerWaitsForAll ==
    /\ spc \in {"final", "returned", "failed"} =>
           \A b \in BatchIds : wpc[b] = "done"
    /\ spc = "wait" => \A b \in BatchIds : wpc[b] # "new"
    /\ spc = "aborted" => batches = NoBatches

\* C9 witness: the scheduler returned after a batch whose provider call
\* failed and a batch whose worker raised inside the critical section
C9_Witness ==
    /\ spc = "returned"
    /\ \E b \in BatchIds : provFailed[b] /\ merged[b]
    /\ \E b \in BatchIds : ~merged[b]

\* the run has ended: the scheduler has left translate_and_update, every
\* batch's task has ended and the lock is free
Terminated ==
    /\ spc \in {"returned", "failed", "aborted"}
    /\ \A b \in BatchIds : wpc[b] = "done"
    /\ lock = 0

RECURSIVE Concat(_)
\* the chunks cs joined in order
Concat(cs) == IF cs = <<>> THEN <<>> ELSE Head(cs) \o Concat(Tail(cs))

\* the chunks that were cut off a longer rest (all but a final rest that fits)
CutIndices == IF cpc = "loop" THEN 1..Len(chunks) ELSE 1..(Len(chunks) - 1)

\* the window text[0:max_chars] of the rest that chunk i was cut from
Window(i) ==
    LET start == Len(Concat(SubSeq(chunks, 1, i - 1)))
    IN  SubSeq(text, start + 1, Min(start + max_chars, Len(text)))

\* the positions > 0 at which d occurs in w
OccurrencesAfterStart(w, d) ==
    {p \in 1..(Len(w) - Len(d)) : SubSeq(w, p + 1, p + Len(d)) = d}

Last(S) == CHOOSE p \in S : \A q \in S : q <= p

\* C11: the chunks of a finished plan, joined in order, are the text; while
\* the plan is made the chunks so far are the text up to pos.
C11_RoundTrip ==
    /\ cpc = "done" => Concat(chunks) = text
    /\ cpc = "loop" => Concat(chunks) = SubSeq(text, 1, pos)

\* C11 witness: a finished plan of at least three chunks
C11_Witness ==
    /\ cpc = "done"
    /\ Len(chunks) >= 3
    /\ \E i \in 1..Len(text) : text[i] # "w"

\* C12 (as claimed): a text no longer than max_chars, the empty text
\* included, is planned as exactly one chunk equal to the text.
C12_OneChunk ==
    (cpc = "done" /\ Len(text) <= max_chars) => chunks = <<text>>

\* C12 (amended): a non-empty text no longer than max_chars is planned as
\* exactly one chunk equal to the text; the empty text is planned as no chunk.
C12_OneChunkUnlessEmpty ==
    (cpc = "done" /\ Len(text) <= max_chars) =>
        IF text = <<>> THEN chunks = <<>> ELSE chunks = <<text>>

\* C12 witness: a finished plan of a text of exactly max_chars characters
C12_Witness ==
    /\ cpc = "done"
    /\ Len(text) = max_chars
    /\ chunks = <<text>>

\* C13: every chunk is non-empty and at most max_chars long, and every
\* pass of the loop ends the plan or moves pos forward, within the text.
C13_ChunkSizeBound ==
    /\ [](/\ \A i \in 1..Len(chunks) :
                Len(chunks[i]) >= 1 /\ Len(chunks[i]) <= max_chars
          /\ pos <= Len(text))
    /\ [][cpc = "loop" => (cpc' = "done" \/ pos' > pos)]_vars

\* C13 witness: a hard cut of max_chars characters without a delimiter and
\* a cut after a delimiter in the same plan
C13_Witness ==
    \E i, j \in CutIndices :
        /\ Len(chunks[i]) = max_chars
        /\ \A k \in 1..Len(chunks[i]) : chunks[i][k] = "w"
        /\ chunks[j][Len(chunks[j])] = " "

\* the delimiter types of C14 in their order: newline, CRLF, sentence
\* punctuation followed by whitespace, '; ', ', ', plain space
PriorityOrder ==
    << <<"\n">>, <<"\r", "\n">>, <<".", " ", " ">>, <<"!", " ", " ">>,
       <<"?", " ", " ">>, <<";", " ">>, <<",", " ">>, <<" ">> >>

\* the cut C14 states for the window w
PriorityCut(w) ==
    LET types == {k \in 1..Len(PriorityOrder) :
                     OccurrencesAfterStart(w, PriorityOrder[k]) # {}}
    IN  IF types = {} THEN max_chars
        ELSE LET k == CHOOSE x \in types : \A y \in types : x <= y
             IN  Last(OccurrencesAfterStart(w, PriorityOrder[k]))
                     + Len(PriorityOrder[k])

C15_SentenceBeatsSpace ==
    /\ \A i \in CutIndices :
           (/\ \A p \in 1..Len(Window(i)) : Window(i)[p] # "\n"
            /\ OccurrencesAfterStart(Window(i), <<".", " ">>) # {})
               => Len(chunks[i]) =
                      Last(OccurrencesAfterStart(Window(i), <<".", " ">>)) + 2
    /\ (text = HelloText /\ max_chars = 20 /\ chunks # <<>>)
           => chunks[1] = SubSeq(HelloText, 1, 13)

\* C16: one translate_chunk call issues at most 3 provider attempts; a
\* successful attempt is the last one and its answer is what the call
\* returns; the call raises only after 3 failed attempts and returns only
\* after a success; after failed attempt k it has slept k seconds before
\* attempt k + 1 (1, then 2).
C16_BoundedRetry ==
    /\ Len(log) <= 3
    /\ \A k \in 1..Len(log) :
           log[k].ok => (k = Len(log) /\ tpc = "returned" /\ tvalue = log[k].out)
    /\ tpc = "returned" => (Len(log) >= 1 /\ log[Len(log)].ok)
    /\ tpc = "raised" => (Len(log) = 3 /\ \A k \in 1..3 : ~log[k].ok)
    /\ (Len(log) = 3 /\ \A k \in 1..3 : ~log[k].ok) => tpc \in {"try", "raised"}
    /\ \A k \in 1..(Len(log) - 1) : Len(sleeps) >= k /\ sleeps[k] = k

\* C16 witness: a call that returned the answer to its third attempt, after
\* sleeping 1 and 2 seconds
C16_Witness ==
    /\ tpc = "returned"
    /\ Len(log) = 3
    /\ sleeps = <<1, 2>>

\* the piece C17 states for chunk i: its translation, or the chunk itself
Piece(i) == IF outcomes[i].ok THEN outcomes[i].out ELSE file_chunks[i]

\* C17: while the chunks of a document are translated the run is not ended
\* and the chunks finished so far are the first chunks in index order; once
\* the loop is over every chunk has one outcome and the result is the
\* in-order concatenation of the translation of each chunk that succeeded
\* and the original text of each chunk that failed.
C17_FailureSubstitution ==
    /\ dpc = "chunks" =>
           /\ exit_code = -1
           /\ Len(outcomes) = ci
           /\ Len(translated_chunks) = ci
           /\ ci <= Len(file_chunks)
           /\ \A i \in 1..ci : outcomes[i].sent = file_chunks[i]
    /\ (dpc \in {"save", "exit"} /\ Len(content) > MAX_CHARS) =>
           /\ Concat(file_chunks) = content
           /\ Len(outcomes) = Len(file_chunks)
           /\ \A i \in 1..Len(file_chunks) : outcomes[i].sent = file_chunks[i]
           /\ result = Concat([i \in 1..Len(file_chunks) |-> Piece(i)])

\* C17 witness: a document of at least three chunks is joined after a
\* failed chunk was followed by a translated one
C17_Witness ==
    /\ dpc = "save"
    /\ Len(file_chunks) >= 3
    /\ \E i, j \in 1..Len(outcomes) : i < j /\ ~outcomes[i].ok /\ outcomes[j].ok

\* C18: in a run of main on an existing input file whose output file
\* existed when the run started, no provider call is issued, the output
\* file stays as it was, and the run ends with exit code 0.
C18_IdempotentSkip ==
    (dpc # "idle" /\ ~(argc < 2) /\ fs_in.exists /\ out_at_start.exists) =>
        /\ calls = 0
        /\ fs_out = out_at_start
        /\ exit_code \in {-1, 0}
        /\ dpc = "exit" => exit_code = 0

\* C18 witness: a second run has ended on the output the first run wrote
C18_Witness ==
    /\ druns = 2
    /\ dpc = "exit"
    /\ exit_code = 0
    /\ out_at_start.exists
    /\ out_at_start.data \notin {OldOutput, <<>>}
    /\ fs_out = out_at_start
    /\ calls = 0

\* every provider response of the run failed or had a line for every word sent
ResponsesFailedOrFull ==
    \A b \in BatchIds :
        wpc[b] \notin {"new", "queued", "translate"} =>
            (provFailed[b] \/ DOMAIN wtrans[b] = Range(BatchWords(b)))

C20_SentinelIsFinal ==
    \A w \in Words :
        (spc # "start" /\ w \in DOMAIN translations /\ translations[w] = ERROR) =>
            /\ \A b \in BatchIds : w \notin Range(BatchWords(b))
            /\ (disk.exists /\ disk.ok) =>
                   (w \in DOMAIN disk.data /\ disk.data[w] = ERROR)

\* C20 witness: a later run loaded a sentinel entry of the vocabulary and
\* has written another batch
C20_Witness ==
    /\ run >= 2
    /\ \E w \in Range(all_words) :
           w \in DOMAIN translations /\ translations[w] = ERROR
    /\ \E b \in BatchIds : merged[b]

=============================================================================
